---- MODULE Spec2Model ----
(***************************************************************************)
(* AgentBond: warranty verification pipeline.                              *)
(*                                                                         *)
(* The module models the policy evaluation engine                          *)
(* (backend/services/policy_engine.py), the claim verifier                 *)
(* (backend/services/claim_verifier.py), the reputation scorer             *)
(* (backend/services/reputation.py), the run orchestrator                  *)
(* (backend/services/orchestrator.py) and the HTTP handlers that sequence  *)
(* them (backend/routers/claims.py, backend/routers/policies.py) over the  *)
(* tables of backend/models/schema.py.                                     *)
(*                                                                         *)
(* Python dicts are functions whose domain is the set of keys present      *)
(* (TLA+ records); the empty dict is the empty function <<>>.  Python      *)
(* lists are sequences.  A JSON value whose type the code inspects is a    *)
(* tagged record: [t |-> "num", n |-> 5], [t |-> "str", s |-> "abc"],      *)
(* [t |-> "none"].                                                         *)
(***************************************************************************)
EXTENDS Integers, Sequences, FiniteSets, TLC

\* ------------------------------------------------------------------ bounds
MaxPolicies == 2      \* policies registered in one behaviour
MaxRuns     == 1      \* runs executed in one behaviour
MaxRequests == 2      \* submit_claim requests issued in one behaviour

\* ------------------------------------------------------- python primitives
EmptyDict == <<>>

Has(d, k) == k \in DOMAIN d

NumV(x) == [t |-> "num", n |-> x]
StrV(x) == [t |-> "str", s |-> x]
NoneV   == [t |-> "none"]

Min(a, b) == IF a <= b THEN a ELSE b
Max(a, b) == IF a >= b THEN a ELSE b

Range(s) == {s[i] : i \in 1..Len(s)}

\* [f(x) for x in s]
MapSeq(s, f(_)) == [i \in 1..Len(s) |-> f(s[i])]

\* hashlib.sha256(...).hexdigest(): a collision-free tag over the hashed data.
\* json.dumps(..., sort_keys=True) makes the text independent of the order in
\* which dict keys were inserted, as is the value of a TLA+ record.
Sha256(data) == <<"sha256", data>>

\* str.lower() over the strings that occur as targets.
Lower(s) ==
    CASE s = "0xDEAD" -> "0xdead"
      [] s = "0xDeAd" -> "0xdead"
      [] s = "0xBEEF" -> "0xbeef"
      [] OTHER -> s

\* float(value): numbers convert, numeric strings parse, everything else
\* raises TypeError / ValueError.
NumericStrings == {"150", "50"}

ParseNumeric(s) ==
    CASE s = "150" -> 150
      [] s = "50" -> 50
      [] OTHER -> 0

CanFloat(v) == \/ v.t = "num"
               \/ v.t = "str" /\ v.s \in NumericStrings

Float(v) == IF v.t = "num" THEN v.n ELSE ParseNumeric(v.s)

\* list(a_set): CPython iterates a set of strings in an order fixed by the
\* per-process string hash seed.  A seed is the order in which the process
\* would iterate over all the strings; a set is listed as its elements in
\* that order.
ToolNames == <<"get_price", "send_funds", "delete_logs">>
TargetNames == <<"0xbeef", "0xdead">>

Reverse(s) == [i \in 1..Len(s) |-> s[Len(s) + 1 - i]]

Seeds == {0, 1}

IterationOrder(universe, seed) == IF seed = 0 THEN universe ELSE Reverse(universe)

ListOfSet(S, universe, seed) ==
    LET order == IterationOrder(universe, seed)
        member(x) == x \in S
    IN SelectSeq(order, member)

\* ------------------------------------------------------------ policy engine
\* REASON CODES, in the order evaluate_policy runs the checks.
VALID_REASON_CODES ==
    {"TOOL_WHITELIST_VIOLATION", "VALUE_LIMIT_EXCEEDED", "PROHIBITED_TARGET",
     "FREQUENCY_EXCEEDED", "STALE_DATA", "MODEL_MISMATCH"}

RuleResult(passed, reason_code, evidence) ==
    [passed |-> passed, reason_code |-> reason_code, evidence |-> evidence]

\* Mutant: the role of the entry is not looked at.
IsAnyRole(entry) == TRUE

\* entry.get("role") == "tool_call"
IsToolCall(entry) == Has(entry, "role") /\ entry.role = "tool_call"

\* entry.get("tool", "")
ToolOrEmpty(entry) == IF Has(entry, "tool") THEN entry.tool ELSE ""

\* entry.get("tool"): None when the key is missing
ToolOrNone(entry) == IF Has(entry, "tool") THEN StrV(entry.tool) ELSE NoneV

\* entry.get("args", {})
ArgsOf(entry) == IF Has(entry, "args") THEN entry.args ELSE EmptyDict

check_tool_whitelist(transcript, policy, seed) ==
    LET allowed == IF Has(policy, "allowed_tools")
                   THEN Range(policy.allowed_tools) ELSE {}
        bad(entry) == /\ IsToolCall(entry)
                      /\ ToolOrEmpty(entry) # ""
                      /\ ToolOrEmpty(entry) \notin allowed
        violations == MapSeq(SelectSeq(transcript, bad), ToolOrEmpty)
    IN IF allowed = {}
       THEN RuleResult(TRUE, "TOOL_WHITELIST_VIOLATION", EmptyDict)
       ELSE IF violations # <<>>
            THEN RuleResult(FALSE, "TOOL_WHITELIST_VIOLATION",
                            [disallowed_tools |-> violations,
                             allowed |-> ListOfSet(allowed, ToolNames, seed)])
            ELSE RuleResult(TRUE, "TOOL_WHITELIST_VIOLATION", EmptyDict)

\* args.get("value", args.get("amount", 0))
ValueArg(args) ==
    IF Has(args, "value") THEN args.value
    ELSE IF Has(args, "amount") THEN args.amount
    ELSE NumV(0)

check_value_limits(transcript, policy) ==
    LET max_value == policy.max_value_per_action
        bad(entry) == /\ IsToolCall(entry)
                      /\ CanFloat(ValueArg(ArgsOf(entry)))
                      /\ Float(ValueArg(ArgsOf(entry))) > max_value
        item(entry) == [tool |-> ToolOrNone(entry),
                        value |-> Float(ValueArg(ArgsOf(entry))),
                        max |-> max_value]
    IN IF ~Has(policy, "max_value_per_action")
       THEN RuleResult(TRUE, "VALUE_LIMIT_EXCEEDED", EmptyDict)
       ELSE LET violations == MapSeq(SelectSeq(transcript, bad), item)
            IN IF violations # <<>>
               THEN RuleResult(FALSE, "VALUE_LIMIT_EXCEEDED",
                               [violations |-> violations])
               ELSE RuleResult(TRUE, "VALUE_LIMIT_EXCEEDED", EmptyDict)

\* args.get("target", args.get("to", args.get("address", "")))
TargetArg(args) ==
    IF Has(args, "target") THEN args.target
    ELSE IF Has(args, "to") THEN args.to
    ELSE IF Has(args, "address") THEN args.address
    ELSE StrV("")

check_prohibited_targets(transcript, policy, seed) ==
    LET prohibited == IF Has(policy, "prohibited_targets")
                      THEN {Lower(x) : x \in Range(policy.prohibited_targets)}
                      ELSE {}
        bad(entry) == /\ IsToolCall(entry)
                      /\ TargetArg(ArgsOf(entry)).t = "str"
                      /\ Lower(TargetArg(ArgsOf(entry)).s) \in prohibited
        item(entry) == [tool |-> ToolOrNone(entry),
                        target |-> TargetArg(ArgsOf(entry)).s]
        violations == MapSeq(SelectSeq(transcript, bad), item)
    IN IF prohibited = {}
       THEN RuleResult(TRUE, "PROHIBITED_TARGET", EmptyDict)
       ELSE IF violations # <<>>
            THEN RuleResult(FALSE, "PROHIBITED_TARGET",
                            [violations |-> violations,
                             prohibited |-> ListOfSet(prohibited, TargetNames, seed)])
            ELSE RuleResult(TRUE, "PROHIBITED_TARGET", EmptyDict)

\* run.get("timestamp", 0)
TimestampOf(d) == IF Has(d, "timestamp") THEN d.timestamp ELSE 0

check_action_frequency(run_history, policy, now) ==
    IF ~Has(policy, "max_actions_per_window") \/ ~Has(policy, "window_seconds")
    THEN RuleResult(TRUE, "FREQUENCY_EXCEEDED", EmptyDict)
    ELSE LET max_actions == policy.max_actions_per_window
             window == policy.window_seconds
             cutoff == now - window
             recent_count ==
                 Cardinality({i \in 1..Len(run_history) :
                                 TimestampOf(run_history[i]) >= cutoff})
         IN IF recent_count > max_actions
            THEN RuleResult(FALSE, "FREQUENCY_EXCEEDED",
                            [count |-> recent_count, max |-> max_actions,
                             window_seconds |-> window])
            ELSE RuleResult(TRUE, "FREQUENCY_EXCEEDED", EmptyDict)

check_data_freshness(run_metadata, policy, now) ==
    IF ~Has(policy, "required_data_freshness_seconds")
    THEN RuleResult(TRUE, "STALE_DATA", EmptyDict)
    ELSE LET max_staleness == policy.required_data_freshness_seconds
             data_sources == IF Has(run_metadata, "data_sources")
                             THEN run_metadata.data_sources ELSE <<>>
             isStale(source) == now - TimestampOf(source) > max_staleness
             item(source) ==
                 [source |-> IF Has(source, "name") THEN source.name ELSE "unknown",
                  age_seconds |-> now - TimestampOf(source),
                  max_seconds |-> max_staleness]
             stale == MapSeq(SelectSeq(data_sources, isStale), item)
         IN IF stale # <<>>
            THEN RuleResult(FALSE, "STALE_DATA", [stale_sources |-> stale])
            ELSE RuleResult(TRUE, "STALE_DATA", EmptyDict)

\* Mutant: the mismatch is reported under the code of the check above it.
check_model_mismatch_miscoded(run_metadata, policy) ==
    LET present(k) == Has(run_metadata, k) /\ run_metadata[k] # ""
    IN IF ~present("declared_model") \/ ~present("executed_model")
       THEN RuleResult(TRUE, "STALE_DATA", EmptyDict)
       ELSE IF run_metadata.declared_model # run_metadata.executed_model
            THEN RuleResult(FALSE, "STALE_DATA",
                            [declared |-> run_metadata.declared_model,
                             executed |-> run_metadata.executed_model])
            ELSE RuleResult(TRUE, "STALE_DATA", EmptyDict)

check_model_mismatch(run_metadata, policy) ==
    LET present(k) == Has(run_metadata, k) /\ run_metadata[k] # ""
    IN IF ~present("declared_model") \/ ~present("executed_model")
       THEN RuleResult(TRUE, "MODEL_MISMATCH", EmptyDict)
       ELSE IF run_metadata.declared_model # run_metadata.executed_model
            THEN RuleResult(FALSE, "MODEL_MISMATCH",
                            [declared |-> run_metadata.declared_model,
                             executed |-> run_metadata.executed_model])
            ELSE RuleResult(TRUE, "MODEL_MISMATCH", EmptyDict)

\* now is time.time() of the call, seed the string hash seed of the process.
evaluate_policy(transcript, policy, run_history, run_metadata, now, seed) ==
    LET results == <<check_tool_whitelist(transcript, policy, seed),
                     check_value_limits(transcript, policy),
                     check_prohibited_targets(transcript, policy, seed),
                     check_action_frequency(run_history, policy, now),
                     check_data_freshness(run_metadata, policy, now),
                     check_model_mismatch(run_metadata, policy)>>
        notPassed(r) == ~r.passed
        codeOf(r) == r.reason_code
        failed == SelectSeq(results, notPassed)
        hashed(r) == [code |-> r.reason_code, passed |-> r.passed,
                      evidence |-> r.evidence]
    IN [passed |-> Len(failed) = 0,
        results |-> results,
        failed_codes |-> MapSeq(failed, codeOf),
        evidence_hash |-> Sha256(MapSeq(results, hashed))]

\* ------------------------------------------------------------------ inputs
\* Agents 1 and 2 were registered before the behaviour starts, each by its own
\* operator.  The deployment has the contracts configured; the on-chain
\* registration of agent 1 succeeded and that of agent 2 failed, so agent 2
\* has no chain_agent_id (routers/agents.py catches the failure).
AgentIds == {1, 2}

NoChainId == 0

\* Policy documents an operator registers.
StrictRules == [allowed_tools |-> <<"get_price">>,
                max_value_per_action |-> 100,
                prohibited_targets |-> <<"0xdead">>]

LooseRules == [allowed_tools |-> <<"get_price", "send_funds">>]

RuleDocs == {StrictRules, LooseRules}

\* Transcripts the execution backend returns: the user and assistant turns
\* followed by the tool calls the model made.
CleanTranscript ==
    <<[role |-> "user"], [role |-> "assistant"],
      [role |-> "tool_call", tool |-> "get_price", args |-> EmptyDict]>>

BadTranscript ==
    <<[role |-> "user"], [role |-> "assistant"],
      [role |-> "tool_call", tool |-> "send_funds",
       args |-> [value |-> NumV(9999), target |-> StrV("0xDEAD")]]>>

BackendTranscripts == {CleanTranscript, BadTranscript}

\* Reason codes a claimant sends: two valid ones and one outside the enumeration.
RequestReasons == {"TOOL_WHITELIST_VIOLATION", "STALE_DATA", "NOT_A_CODE"}

\* uuid.uuid4().hex of the k-th run: fresh, and unrelated to the row id k.
RunUuid(k) == 100 + k

UnknownUuid == 999

\* A week in days; the clock counts days.
WeekDays == 7
ClockJump == 8
MaxClock == 8

\* claim.payout_amount: 0.01 ETH, 10^16 wei, counted here in gwei.
PAYOUT_AMOUNT == 10000000

\* ------------------------------------------------------------------- state
VARIABLES
    agents,         \* agents table: id -> row
    policies,       \* policies table: the row with id i is policies[i]
    runs,           \* runs table
    claims,         \* claims table
    snapshots,      \* reputation_snapshots table
    notifications,  \* calls handed on: webhook deliveries scheduled, requests
                    \* a middleware forwarded
    req,            \* the requests in progress: position and locals of each
    now,            \* the clock
    result          \* what the last direct call of a function returned

vars == <<agents, policies, runs, claims, snapshots, notifications, req, now, result>>

NewRequest == [pc |-> "new", run_id |-> 0, run_pk |-> 0, agent_id |-> 0,
               reason_code |-> "", claim_id |-> 0, approved |-> FALSE,
               code |-> 0, status |-> ""]

NoResult == [called |-> FALSE]

Init ==
    /\ agents = [a \in AgentIds |->
                    [operator_id |-> a, status |-> "active", trust_score |-> 100,
                     total_runs |-> 0, violations |-> 0,
                     chain_agent_id |-> IF a = 1 THEN 1 ELSE NoChainId]]
    /\ policies = <<>>
    /\ runs = <<>>
    /\ claims = <<>>
    /\ snapshots = <<>>
    /\ notifications = {}
    /\ req = [r \in 1..MaxRequests |-> NewRequest]
    /\ now = 0
    /\ result = NoResult

\* ---------------------------------------------------------------- queries
Ids(table) == 1..Len(table)

\* select(Policy).where(agent_id == a, status == "active")
\*               .order_by(Policy.id.desc()).limit(1)
ActivePolicyIds(pols, a) ==
    {i \in Ids(pols) : pols[i].agent_id = a /\ pols[i].status = "active"}

MaxOf(S) == CHOOSE x \in S : \A y \in S : y <= x

\* Mutant: the query orders by id ascending and returns the oldest active policy.
SelectOldestPolicy(S) == CHOOSE x \in S : \A y \in S : x <= y

SelectActivePolicy(S) == MaxOf(S)

\* policy.rules_json if policy else {}
PolicyRulesFor(pols, a) ==
    IF ActivePolicyIds(pols, a) = {} THEN EmptyDict
    ELSE pols[SelectActivePolicy(ActivePolicyIds(pols, a))].rules_json

\* select(Run).where(Run.run_id == uuid)
RunPksByUuid(rs, uuid) == {i \in Ids(rs) : rs[i].run_id = uuid}

\* select(Claim).where(Claim.run_id == run_pk)
ClaimsOfRun(cs, run_pk) == {i \in Ids(cs) : cs[i].run_id = run_pk}

\* Mutant: the agent's stored runs are handed to the engine as its history.
RunHistoryOfAgent(rs, a) ==
    LET mine == SelectSeq(rs, LAMBDA run : run.agent_id = a)
    IN [i \in 1..Len(mine) |-> [timestamp |-> mine[i].created_at]]

\* evaluate_policy is called without run_history, which then is [].
RunHistoryGiven(rs, a) == <<>>

\* A JSON column that holds a list or NULL.
NoneJson == [none |-> TRUE]
JsonList(s) == [none |-> FALSE, list |-> s]

\* The empty string returned as evidence_hash when nothing was evaluated.
EmptyHash == <<"">>

\* ----------------------------------------------------------- claim verifier
VerificationResult(valid, approved, reason, evidence_hash, evaluated) ==
    [valid |-> valid, approved |-> approved, reason |-> reason,
     evidence_hash |-> evidence_hash,
     evaluated |-> evaluated]   \* whether evaluate_policy was called

\* run.transcript_json or []
TranscriptOrEmpty(run) == run.transcript_json

\* Mutant: the policy is looked up for the agent named in the claim.
JudgedAgentOfClaim(claim, run) == claim.agent_id

\* The agent whose active policy judges the claim.
JudgedAgent(claim, run) == run.agent_id

\* claim.reason_code in verdict.failed_codes
ReasonConfirmed(claim, verdict) == claim.reason_code \in Range(verdict.failed_codes)

\* Mutant: an approved claim is verified again.
VerifiableOrApproved(status) == status \in {"submitted", "approved"}

\* claim.status != ClaimStatus.submitted is the guard of the second return.
Verifiable(status) == status = "submitted"

InvalidStatusResult ==
    VerificationResult(FALSE, FALSE, "Invalid claim status", EmptyHash, FALSE)

\* Mutant: an invalid reason code is reported as an error of the call.
InvalidReasonAsError ==
    VerificationResult(FALSE, FALSE, "Invalid reason code", EmptyHash, FALSE)

InvalidReasonResult ==
    VerificationResult(TRUE, FALSE, "Invalid reason code", EmptyHash, FALSE)

RunNotFoundResult ==
    VerificationResult(TRUE, FALSE, "Referenced run not found", EmptyHash, FALSE)

verify_claim(cs, rs, pols, claim_id, t, seed) ==
    IF claim_id \notin Ids(cs)
    THEN VerificationResult(FALSE, FALSE, "Claim not found", EmptyHash, FALSE)
    ELSE LET claim == cs[claim_id] IN
    IF ~Verifiable(claim.status)
    THEN InvalidStatusResult
    ELSE IF claim.reason_code \notin VALID_REASON_CODES
    THEN InvalidReasonResult
    ELSE IF claim.run_id \notin Ids(rs)
    THEN RunNotFoundResult
    ELSE LET run == rs[claim.run_id]
             policy_rules == PolicyRulesFor(pols, JudgedAgent(claim, run))
             verdict == evaluate_policy(TranscriptOrEmpty(run), policy_rules,
                                        RunHistoryGiven(rs, run.agent_id),
                                        EmptyDict, t, seed)
         IN IF ReasonConfirmed(claim, verdict)
            THEN VerificationResult(TRUE, TRUE, "Violation confirmed",
                                    verdict.evidence_hash, TRUE)
            ELSE VerificationResult(TRUE, FALSE, "Claimed violation not found in re-evaluation",
                                    verdict.evidence_hash, TRUE)

\* -------------------------------------------------------- reputation scorer
PaidClaims(cs, agent_id) ==
    Cardinality({i \in Ids(cs) : cs[i].agent_id = agent_id /\ cs[i].status = "paid"})

RecentClean(rs, agent_id, t) ==
    Cardinality({i \in Ids(rs) : /\ rs[i].agent_id = agent_id
                                 /\ rs[i].policy_verdict = "pass"
                                 /\ rs[i].created_at >= t - WeekDays})

\* Python floats are IEEE 754 doubles: every operation returns the exact
\* result rounded to 53 significant bits, ties to the even mantissa.  A
\* non-negative double is held here as five limbs <<x1, .., x5>> in base
\* 2^18, least significant first, worth (x1 + x2*B + .. + x5*B^4) / B^4: x5
\* is the integer part and x4..x1 are 72 fractional bits, which is enough to
\* hold the doubles the scorer produces exactly.
LimbBase == 262144
LimbBits == 18
Limbs == 5
MantissaBits == 53

FromInt(n) == <<0, 0, 0, 0, n>>

\* Carry the overflow of every limb into the next one.
RECURSIVE Carried(_, _, _)
Carried(x, i, carry) ==
    IF i > Limbs THEN <<>>
    ELSE LET v == x[i] + carry
         IN IF i = Limbs THEN <<v>>
            ELSE <<v % LimbBase>> \o Carried(x, i + 1, v \div LimbBase)

BitLength(n) == CHOOSE len \in 0..(LimbBits + 2) :
                    n < 2^len /\ (len = 0 \/ n >= 2^(len - 1))

TopLimb(x) == IF \A i \in 1..Limbs : x[i] = 0 THEN 0
              ELSE CHOOSE i \in 1..Limbs : x[i] # 0 /\ \A j \in (i+1)..Limbs : x[j] = 0

AllZeroBelow(x, i) == \A j \in 1..(i - 1) : x[j] = 0

\* The double nearest to the exact value x (plus a positive amount smaller
\* than the last held bit when sticky): round to nearest, ties to even.
RoundToDouble(x, sticky) ==
    IF TopLimb(x) = 0 THEN x
    ELSE LET top == TopLimb(x)
             high == LimbBits * (top - 1) + BitLength(x[top]) - 1
             cut == high - (MantissaBits - 1)   \* index of the last mantissa bit
         IN IF cut <= 0 THEN x
            ELSE LET limb == cut \div LimbBits + 1
                     shift == cut % LimbBits
                     unit == 2^shift
                     low == x[limb] % unit
                     kept == [i \in 1..Limbs |->
                                 IF i < limb THEN 0
                                 ELSE IF i = limb THEN x[i] - low ELSE x[i]]
                     \* the discarded part against half a unit: -1, 0, 1
                     rest == IF shift > 0
                             THEN IF low > unit \div 2 THEN 1
                                  ELSE IF low < unit \div 2 THEN -1
                                  ELSE IF AllZeroBelow(x, limb) /\ ~sticky THEN 0 ELSE 1
                             ELSE IF x[limb - 1] > LimbBase \div 2 THEN 1
                                  ELSE IF x[limb - 1] < LimbBase \div 2 THEN -1
                                  ELSE IF AllZeroBelow(x, limb - 1) /\ ~sticky THEN 0 ELSE 1
                     odd == (x[limb] \div unit) % 2 = 1
                     up == rest = 1 \/ (rest = 0 /\ odd)
                 IN IF up
                    THEN Carried([kept EXCEPT ![limb] = @ + unit], 1, 0)
                    ELSE kept

\* n / d of two ints, true division.
FloatDiv(n, d) ==
    LET x5 == n \div d
        r5 == n % d
        x4 == (r5 * LimbBase) \div d
        r4 == (r5 * LimbBase) % d
        x3 == (r4 * LimbBase) \div d
        r3 == (r4 * LimbBase) % d
        x2 == (r3 * LimbBase) \div d
        r2 == (r3 * LimbBase) % d
        x1 == (r2 * LimbBase) \div d
        r1 == (r2 * LimbBase) % d
    IN RoundToDouble(<<x1, x2, x3, x4, x5>>, r1 # 0)

\* x * k for a float x and a small int k
FloatMul(x, k) ==
    RoundToDouble(Carried([i \in 1..Limbs |-> x[i] * k], 1, 0), FALSE)

FloatAdd(x, y) ==
    RoundToDouble(Carried([i \in 1..Limbs |-> x[i] + y[i]], 1, 0), FALSE)

RECURSIVE Borrowed(_, _, _, _)
Borrowed(x, y, i, borrow) ==
    IF i > Limbs THEN <<>>
    ELSE LET v == x[i] - y[i] - borrow
         IN IF i = Limbs THEN <<v>>
            ELSE IF v < 0 THEN <<v + LimbBase>> \o Borrowed(x, y, i + 1, 1)
                 ELSE <<v>> \o Borrowed(x, y, i + 1, 0)

\* x - y for floats x >= y
FloatSub(x, y) == RoundToDouble(Borrowed(x, y, 1, 0), FALSE)

\* min(x, k) for a float x and an int k
FloatMin(x, k) ==
    IF x[Limbs] > k \/ (x[Limbs] = k /\ ~AllZeroBelow(x, Limbs))
    THEN FromInt(k) ELSE x

\* n * 0.5 for an int n
HalfOf(n) == <<0, 0, 0, (n % 2) * (LimbBase \div 2), n \div 2>>

\* round(x): the nearest int, a tie goes to the even one.
FloatRound(x) ==
    LET whole == x[Limbs]
        half == LimbBase \div 2
    IN IF x[Limbs - 1] > half \/ (x[Limbs - 1] = half /\ ~AllZeroBelow(x, Limbs - 1))
       THEN whole + 1
       ELSE IF x[Limbs - 1] = half /\ AllZeroBelow(x, Limbs - 1)
       THEN IF whole % 2 = 0 THEN whole ELSE whole + 1
       ELSE whole

\* Mutant: the score is not capped at 100.
Uncapped(score) == score

\* min(100, score)
Capped(score) == Min(100, score)

\* reputation.py 67-74: the three terms, as floats, for total_runs > 0
ScoreTerms(total_runs, violations, paid_claims, recent_clean) ==
    LET violation_ratio == FloatDiv(violations, total_runs)
        claim_ratio == FloatDiv(paid_claims, total_runs)
    IN [violation_penalty |-> FloatMin(FloatMul(violation_ratio, 60), 60),
        claim_penalty |-> FloatMin(FloatMul(claim_ratio, 30), 30),
        recency_bonus |-> FloatMin(HalfOf(recent_clean), 10)]

\* reputation.py 76-77
ScoreOf(terms) ==
    LET base == 100
        score == Max(0, FloatRound(FloatAdd(FloatSub(FloatSub(FromInt(base),
                                                              terms.violation_penalty),
                                                     terms.claim_penalty),
                                            terms.recency_bonus)))
    IN Capped(score)

\* round(x, 2): the exact value of the double rounded to two decimals, a tie
\* to the even one; held as a number of hundredths.
Hundredths(x) == FloatRound(Carried([i \in 1..Limbs |-> x[i] * 100], 1, 0))

Breakdown(terms) ==
    [base |-> 100,
     violation_penalty |-> Hundredths(terms.violation_penalty),
     claim_penalty |-> Hundredths(terms.claim_penalty),
     recency_bonus |-> Hundredths(terms.recency_bonus)]

compute_score(ag, cs, rs, agent_id, t) ==
    IF ag[agent_id].total_runs = 0
    THEN [agent_id |-> agent_id, score |-> 100, total_runs |-> 0,
          violations |-> 0, paid_claims |-> 0,
          breakdown |-> [base |-> 100, violation_penalty |-> 0,
                         claim_penalty |-> 0, recency_bonus |-> 0]]
    ELSE LET terms == ScoreTerms(ag[agent_id].total_runs, ag[agent_id].violations,
                                 PaidClaims(cs, agent_id),
                                 RecentClean(rs, agent_id, t))
         IN [agent_id |-> agent_id,
             score |-> ScoreOf(terms),
             total_runs |-> ag[agent_id].total_runs,
             violations |-> ag[agent_id].violations,
             paid_claims |-> PaidClaims(cs, agent_id),
             breakdown |-> Breakdown(terms)]

\* The snapshot row snapshot_score adds.
SnapshotRow(score_data) ==
    [agent_id |-> score_data.agent_id, score |-> score_data.score,
     total_runs |-> score_data.total_runs, violations |-> score_data.violations,
     snapshot_hash |-> Sha256(score_data)]

\* Mutant: the agent has one snapshot row, which every call rewrites.
snapshot_score_replacing(agent_id) ==
    LET score_data == compute_score(agents, claims, runs, agent_id, now)
        others == SelectSeq(snapshots, LAMBDA row : row.agent_id # agent_id)
    IN /\ snapshots' = Append(others, SnapshotRow(score_data))
       /\ agents' = [agents EXCEPT ![agent_id].trust_score = score_data.score]

\* reputation.py 100-119: compute the score, add the snapshot, set the agent's
\* trust_score, commit.
snapshot_score(agent_id) ==
    LET score_data == compute_score(agents, claims, runs, agent_id, now)
    IN /\ snapshots' = Append(snapshots, SnapshotRow(score_data))
       /\ agents' = [agents EXCEPT ![agent_id].trust_score = score_data.score]

\* How contracts.update_score ended.
SyncOutcomes == {"ok", "failed"}

\* Mutant: a failed score sync fails the call.
SyncFailureRaised(sync, attempted, score_data) ==
    IF attempted /\ sync = "failed" THEN [error |-> "score sync failed"] ELSE score_data

\* reputation.py 121-138: the exception of contracts.update_score is caught
\* and logged; score_data is returned either way.
ReturnedAfterSync(sync, attempted, score_data) == score_data

\* ---------------------------------------------------------------- policies
\* POST /api/policies.  The call is made with the API key of operator op; a
\* call for an agent of another operator is refused and changes nothing.
InitialPolicyStatus == "active"

RegisterPolicy(a, op, rules) ==
    /\ Len(policies) < MaxPolicies
    /\ agents[a].operator_id = op
    /\ policies' = Append(policies,
                          [agent_id |-> a, policy_hash |-> Sha256(rules),
                           rules_json |-> rules, status |-> InitialPolicyStatus])
    /\ UNCHANGED <<agents, runs, claims, snapshots, notifications, req, now, result>>

\* The status of row i after activate_policy(policy_id) for agent a committed.
StatusAfterActivate(pols, i, policy_id, a) ==
    IF i = policy_id THEN "active"
    ELSE IF pols[i].agent_id = a /\ pols[i].status = "active" THEN "deprecated"
    ELSE pols[i].status

\* POST /api/policies/{policy_id}/activate
ActivatePolicy(policy_id, a, op) ==
    /\ policy_id \in Ids(policies)
    /\ policies[policy_id].agent_id = a
    /\ agents[a].operator_id = op
    /\ policies' = [i \in Ids(policies) |->
                       [policies[i] EXCEPT
                           !.status = StatusAfterActivate(policies, i, policy_id, a)]]
    /\ policies' # policies
    /\ UNCHANGED <<agents, runs, claims, snapshots, notifications, req, now, result>>

\* -------------------------------------------------------------------- runs
MODEL_ID == "meta-llama/llama-3.1-8b"

\* Mutant: the backend reports the identifier the model resolved to.
ExecutedModelResolved(model_id) == "anthropic/claude-sonnet"

\* og_client: model_cid = model_id, in mock mode and in live mode alike.
ExecutedModel(model_id) == model_id

\* hashlib.sha256(user_input.encode()) and hashlib.sha256(output.encode()):
\* the prompt and the assistant's answer are the first two turns.
InputHash(transcript) == Sha256(<<"input", transcript[1]>>)
OutputHash(transcript) == Sha256(<<"output", transcript[2]>>)

\* The Run row execute_run adds: the k-th run, of agent a, at time t.
RunRow(k, a, transcript, verdict, t) ==
    [run_id |-> RunUuid(k),
     agent_id |-> a,
     input_hash |-> InputHash(transcript),
     output_hash |-> OutputHash(transcript),
     transcript_json |-> transcript,
     policy_verdict |-> IF verdict.passed THEN "pass" ELSE "fail",
     reason_codes |-> IF verdict.failed_codes # <<>>
                      THEN JsonList(verdict.failed_codes)
                      ELSE NoneJson,
     created_at |-> t]

\* run_metadata of execute_run
RunMetadata == [declared_model |-> MODEL_ID, executed_model |-> ExecutedModel(MODEL_ID)]

\* Mutant: every run is counted as a violation.
CountersAlwaysViolating(agent, verdict) ==
    [agent EXCEPT !.total_runs = @ + 1, !.violations = @ + 1]

\* agent.total_runs += 1; if not verdict.passed: agent.violations += 1
CountersAfterRun(agent, verdict) ==
    [agent EXCEPT !.total_runs = @ + 1,
                  !.violations = IF verdict.passed THEN @ ELSE @ + 1]

\* Mutant: only retired agents are refused.
RunnableUnlessRetired(status) == status # "retired"

\* agent.status != "active" raises before anything is read or written.
Runnable(status) == status = "active"

\* execute_run for an existing agent, from the first line to the commit;
\* transcript is what the execution backend answered.  A call for an agent
\* that is not active raises before anything is written.
execute_run(a, transcript, seed) ==
    /\ Runnable(agents[a].status)
    /\ LET policy_rules == PolicyRulesFor(policies, a)
           verdict == evaluate_policy(transcript, policy_rules,
                                      RunHistoryGiven(runs, a),
                                      RunMetadata, now, seed)
       IN /\ runs' = Append(runs, RunRow(Len(runs) + 1, a, transcript, verdict, now))
          /\ agents' = [agents EXCEPT ![a] = CountersAfterRun(agents[a], verdict)]
    /\ UNCHANGED <<policies, claims, snapshots, notifications, req, now, result>>

ExecuteRun(a, transcript, seed) ==
    /\ Len(runs) < MaxRuns
    /\ execute_run(a, transcript, seed)

\* More than a week passes.
AdvanceClock ==
    /\ now + ClockJump <= MaxClock
    /\ now' = now + ClockJump
    /\ UNCHANGED <<agents, policies, runs, claims, snapshots, notifications, req, result>>

\* ------------------------------------------------------------ submit_claim
Respond(r, code, status, approved) ==
    req' = [req EXCEPT ![r].pc = "done", ![r].code = code,
                       ![r].status = status, ![r].approved = approved]

\* What the lookup of an existing claim for the run answers:
\* scalar_one_or_none() raises MultipleResultsFound on two or more rows.
ExistingClaimCheck(cs, run_pk) ==
    IF ClaimsOfRun(cs, run_pk) = {} THEN "none"
    ELSE IF Cardinality(ClaimsOfRun(cs, run_pk)) = 1 THEN "one"
    ELSE "error"

\* claims.py 38-55: validate the reason code, find the run, look for a claim
\* of the run.
SubmitCheck(r, run_id, agent_id, reason_code) ==
    /\ req[r].pc = "new"
    /\ IF reason_code \notin VALID_REASON_CODES
       THEN Respond(r, 400, "", FALSE)
       ELSE IF RunPksByUuid(runs, run_id) = {}
       THEN Respond(r, 404, "", FALSE)
       ELSE LET run_pk == CHOOSE i \in RunPksByUuid(runs, run_id) : TRUE
                existing == ExistingClaimCheck(claims, run_pk)
            IN IF existing = "one" THEN Respond(r, 409, "", FALSE)
               ELSE IF existing = "error" THEN Respond(r, 500, "", FALSE)
               ELSE req' = [req EXCEPT ![r].pc = "insert",
                                       ![r].run_id = run_id,
                                       ![r].run_pk = run_pk,
                                       ![r].agent_id = agent_id,
                                       ![r].reason_code = reason_code]
    /\ UNCHANGED <<agents, policies, runs, claims, snapshots, notifications, now, result>>

\* claims.py 57-76: insert the claim, commit, schedule claim.submitted.
SubmitInsert(r) ==
    /\ req[r].pc = "insert"
    /\ claims' = Append(claims,
                        [run_id |-> req[r].run_pk,
                         agent_id |-> req[r].agent_id,
                         reason_code |-> req[r].reason_code,
                         evidence_hash |-> Sha256(EmptyDict),
                         status |-> "submitted",
                         payout_amount |-> 0,
                         chain_claim_id |-> NoChainId])
    /\ notifications' = notifications \cup
           {[event |-> "claim.submitted", agent_id |-> req[r].agent_id,
             claim_id |-> Len(claims) + 1, approved |-> FALSE]}
    /\ req' = [req EXCEPT ![r].pc = "verify", ![r].claim_id = Len(claims) + 1]
    /\ UNCHANGED <<agents, policies, runs, snapshots, now, result>>

\* claims.py 78-85: verify; on approval record it and commit.
SubmitVerify(r, seed) ==
    /\ req[r].pc = "verify"
    /\ LET verification == verify_claim(claims, runs, policies, req[r].claim_id, now, seed)
       IN IF verification.approved
          THEN /\ claims' = [claims EXCEPT ![req[r].claim_id].status = "approved",
                                           ![req[r].claim_id].payout_amount = PAYOUT_AMOUNT]
               /\ req' = [req EXCEPT ![r].pc = "snapshot", ![r].approved = TRUE]
          ELSE /\ claims' = claims
               /\ req' = [req EXCEPT ![r].pc = "notify", ![r].approved = FALSE]
    /\ UNCHANGED <<agents, policies, runs, snapshots, notifications, now, result>>

\* claims.py 88: await snapshot_score(db, req.agent_id); sync is how the score
\* sync of reputation.py 121-136 ended.
SubmitSnapshot(r, sync) ==
    /\ req[r].pc = "snapshot"
    /\ snapshot_score(req[r].agent_id)
    /\ LET a == req[r].agent_id
           returned == ReturnedAfterSync(sync, agents[a].chain_agent_id # NoChainId,
                                         compute_score(agents, claims, runs, a, now))
       IN IF "error" \in DOMAIN returned
          THEN Respond(r, 500, "", TRUE)
          ELSE req' = [req EXCEPT ![r].pc = "notify"]
    /\ UNCHANGED <<policies, runs, claims, notifications, now, result>>

\* The n-th id the claim manager contract hands out.
ChainClaimId(cs) == 1 + Cardinality({i \in Ids(cs) : cs[i].chain_claim_id # NoChainId})

ChainOutcomes == {"submit_failed", "verify_failed", "payout_failed", "ok"}

\* Mutant: the payout branch is taken whether or not the claim was approved.
PaidStatusUnguarded(approved, current) == "paid"

\* The status written after the on-chain payout succeeded.
PaidStatus(approved, current) == IF approved THEN "paid" ELSE current

\* claims.py 90-143: schedule claim.resolved, then the on-chain submit,
\* verify and payout; any failure there is caught.  outcome is how far the
\* chain calls got.
SubmitSettle(r, outcome) ==
    /\ req[r].pc = "notify"
    /\ notifications' = notifications \cup
           {[event |-> "claim.resolved", agent_id |-> req[r].agent_id,
             claim_id |-> req[r].claim_id, approved |-> req[r].approved]}
    /\ LET cid == req[r].claim_id
           onchain == agents[req[r].agent_id].chain_agent_id # NoChainId
           submitted == onchain /\ outcome # "submit_failed"
           paid == submitted /\ outcome = "ok"
           status == IF paid THEN PaidStatus(req[r].approved, claims[cid].status)
                     ELSE claims[cid].status
       IN /\ claims' = [claims EXCEPT
                 ![cid].chain_claim_id = IF submitted THEN ChainClaimId(claims) ELSE @,
                 ![cid].status = status]
          /\ Respond(r, 200, status, req[r].approved)
    /\ UNCHANGED <<agents, policies, runs, snapshots, now, result>>

\* ------------------------------------------------------------ specification
OperatorIds == {1, 2}

\* The run ids claimants send: those of the runs that can exist, and one of
\* no run.
RequestUuids(maxRuns) == {RunUuid(k) : k \in 1..maxRuns} \cup {UnknownUuid}

\* The steps of the submit_claim requests 1..n.
SubmitClaimStep(n, maxRuns) ==
    \/ \E r \in 1..n, run_id \in RequestUuids(maxRuns), agent_id \in AgentIds,
          reason_code \in RequestReasons :
           SubmitCheck(r, run_id, agent_id, reason_code)
    \/ \E r \in 1..n : SubmitInsert(r)
    \/ \E r \in 1..n, seed \in Seeds : SubmitVerify(r, seed)
    \/ \E r \in 1..n, sync \in SyncOutcomes : SubmitSnapshot(r, sync)
    \/ \E r \in 1..n, outcome \in ChainOutcomes : SubmitSettle(r, outcome)

Next ==
    \/ \E a \in AgentIds, op \in OperatorIds, rules \in RuleDocs :
           RegisterPolicy(a, op, rules)
    \/ \E policy_id \in 1..MaxPolicies, a \in AgentIds, op \in OperatorIds :
           ActivatePolicy(policy_id, a, op)
    \/ \E a \in AgentIds, transcript \in BackendTranscripts, seed \in Seeds :
           ExecuteRun(a, transcript, seed)
    \/ AdvanceClock
    \/ SubmitClaimStep(MaxRequests, MaxRuns)

Spec == Init /\ [][Next]_vars

\* ------------------------------------------- concurrent claims against one run
\* RaceRequests claimants submit while agent 1 has one run: the operator
\* registered the strict policy and the backend answered BadTranscript.
RaceRequests == 3

RaceRun ==
    RunRow(1, 1, BadTranscript,
           evaluate_policy(BadTranscript, StrictRules, <<>>, RunMetadata, 0, 0), 0)

InitRace ==
    /\ agents = [a \in AgentIds |->
                    [operator_id |-> a, status |-> "active", trust_score |-> 100,
                     total_runs |-> IF a = 1 THEN 1 ELSE 0,
                     violations |-> IF a = 1 THEN 1 ELSE 0,
                     chain_agent_id |-> IF a = 1 THEN 1 ELSE NoChainId]]
    /\ policies = <<[agent_id |-> 1, policy_hash |-> Sha256(StrictRules),
                     rules_json |-> StrictRules, status |-> "active"]>>
    /\ runs = <<RaceRun>>
    /\ claims = <<>>
    /\ snapshots = <<>>
    /\ notifications = {}
    /\ req = [r \in 1..RaceRequests |-> NewRequest]
    /\ now = 0
    /\ result = NoResult

NextRace == SubmitClaimStep(RaceRequests, 1)

SpecRace == InitRace /\ [][NextRace]_vars

\* ------------------------------------------------ verify_claim called directly
\* verify_claim is a service function of its own (tests/test_claim_verifier.py
\* calls it on rows of every shape).  It is applied here to every database of
\* at most VerifyPolicies policies, one run and one claim; the claim may
\* reference run 2, which does not exist, and carry any status or reason.
VerifyPolicies == 2

ClaimStatuses == {"submitted", "verified", "approved", "rejected", "paid"}

PolicyRows ==
    [agent_id : AgentIds, policy_hash : {Sha256(rules) : rules \in RuleDocs},
     rules_json : RuleDocs, status : {"active", "deprecated"}]

SeqsUpTo(S, n) == UNION {[1..k -> S] : k \in 0..n}

\* The run execute_run stored for agent a when the backend answered transcript
\* and the agent's rules were rules.
StoredRun(k, a, transcript, rules, t) ==
    RunRow(k, a, transcript,
           evaluate_policy(transcript, rules, <<>>, RunMetadata, t, 0), t)

InitVerify ==
    /\ agents = [a \in AgentIds |->
                    [operator_id |-> a, status |-> "active", trust_score |-> 100,
                     total_runs |-> IF a = 1 THEN 1 ELSE 0,
                     violations |-> 0,
                     chain_agent_id |-> IF a = 1 THEN 1 ELSE NoChainId]]
    /\ policies \in {ps \in SeqsUpTo(PolicyRows, VerifyPolicies) :
                        \A i \in 1..Len(ps) :
                            ps[i].policy_hash = Sha256(ps[i].rules_json)}
    /\ \E transcript \in BackendTranscripts, rules \in RuleDocs \cup {EmptyDict} :
           runs = <<StoredRun(1, 1, transcript, rules, 0)>>
    /\ \E run_pk \in {1, 2}, agent_id \in AgentIds,
          reason_code \in RequestReasons, status \in ClaimStatuses :
           claims = <<[run_id |-> run_pk, agent_id |-> agent_id,
                       reason_code |-> reason_code,
                       evidence_hash |-> Sha256(EmptyDict),
                       status |-> status,
                       payout_amount |-> IF status \in {"approved", "paid"}
                                         THEN PAYOUT_AMOUNT ELSE 0,
                       chain_claim_id |-> NoChainId]>>
    /\ snapshots = <<>>
    /\ notifications = {}
    /\ req = [r \in 1..MaxRequests |-> NewRequest]
    /\ now = 0
    /\ result = NoResult

\* await verify_claim(db, claim_id)
VerifyClaim(claim_id, seed) ==
    /\ result' = [called |-> TRUE, claim_id |-> claim_id,
                  verification |-> verify_claim(claims, runs, policies, claim_id, now, seed)]
    /\ UNCHANGED <<agents, policies, runs, claims, snapshots, notifications, req, now>>

NextVerify == \E claim_id \in 1..2, seed \in Seeds : VerifyClaim(claim_id, seed)

SpecVerify == InitVerify /\ [][NextVerify]_vars

\* ------------------------------------------------- replay and agent status
\* og_client.verify_proof: whether the settlement transaction checked out.
\* Without a real transaction hash the attestation is trusted.
ProofOutcomes == {"valid", "invalid"}

\* Mutant: replay writes the fresh verdict over the stored one.
StoredOverwritten(run, verdict) ==
    [run EXCEPT !.policy_verdict = IF verdict.passed THEN "pass" ELSE "fail",
                !.reason_codes = JsonList(verdict.failed_codes)]

\* replay_run assigns to no attribute of the run it loaded.
StoredAfterReplay(run, verdict) == run

\* The fresh verdict of replay_run: no run history, no run metadata.
ReplayVerdict(rs, pols, run_pk, t, seed) ==
    evaluate_policy(TranscriptOrEmpty(rs[run_pk]),
                    PolicyRulesFor(pols, rs[run_pk].agent_id),
                    RunHistoryGiven(rs, rs[run_pk].agent_id), EmptyDict, t, seed)

\* What replay_run returns, or the ValueError it raises.
replay_run(rs, pols, run_id, proof, t, seed) ==
    IF RunPksByUuid(rs, run_id) = {}
    THEN [error |-> "Run not found"]
    ELSE LET run_pk == CHOOSE i \in RunPksByUuid(rs, run_id) : TRUE
             verdict == ReplayVerdict(rs, pols, run_pk, t, seed)
         IN [run_id |-> rs[run_pk].run_id,
             proof_valid |-> proof = "valid",
             input_hash_match |-> proof = "valid",
             output_hash_match |-> proof = "valid",
             policy_verdict |-> IF verdict.passed THEN "pass" ELSE "fail",
             reason_codes |-> verdict.failed_codes,
             evidence_hash |-> verdict.evidence_hash,
             original_verdict |-> rs[run_pk].policy_verdict]

\* GET /api/runs/{run_id}/replay
ReplayRun(run_id, proof, seed) ==
    /\ result' = [called |-> TRUE, op |-> "replay_run", run_id |-> run_id,
                  response |-> replay_run(runs, policies, run_id, proof, now, seed)]
    /\ runs' = [i \in Ids(runs) |->
                   IF i \in RunPksByUuid(runs, run_id)
                   THEN StoredAfterReplay(runs[i], ReplayVerdict(runs, policies, i, now, seed))
                   ELSE runs[i]]
    /\ UNCHANGED <<agents, policies, claims, snapshots, notifications, req, now>>

AgentStatuses == {"active", "paused", "retired"}

\* POST /api/agents/{agent_id}/status
SetAgentStatus(a, status) ==
    /\ a \in DOMAIN agents
    /\ agents' = [agents EXCEPT ![a].status = status]
    /\ UNCHANGED <<policies, runs, claims, snapshots, notifications, req, now, result>>

\* ------------------------------------------------- histories of several runs
\* One client at a time: every call runs to its commit before the next one
\* starts.  HistoryRuns runs are executed, replayed and claimed against while
\* the operators register and activate policies.
HistoryRuns == 2

\* execute_run while fewer than HistoryRuns runs exist.
ExecuteAnotherRun(a, transcript, seed) ==
    /\ Len(runs) < HistoryRuns
    /\ execute_run(a, transcript, seed)

NextHistory ==
    \/ \E a \in AgentIds, op \in OperatorIds, rules \in RuleDocs :
           RegisterPolicy(a, op, rules)
    \/ \E policy_id \in 1..MaxPolicies, a \in AgentIds, op \in OperatorIds :
           ActivatePolicy(policy_id, a, op)
    \/ \E a \in AgentIds, transcript \in BackendTranscripts, seed \in Seeds :
           ExecuteAnotherRun(a, transcript, seed)
    \/ \E run_id \in RequestUuids(HistoryRuns), proof \in ProofOutcomes, seed \in Seeds :
           ReplayRun(run_id, proof, seed)
    \/ SubmitClaimStep(1, HistoryRuns)

SpecHistory == Init /\ [][NextHistory]_vars

\* ------------------------------------------------ concurrent execute_run calls
\* Each call of execute_run has its own database session.  The session loads
\* the agent row once (orchestrator.py 31); agent.total_runs += 1 then adds to
\* the value that was loaded, and the commit writes the sum.  The awaits
\* between the load and the commit let other calls run.
ExecRequests == 2

\* Agent 3 is registered nowhere.
ExecAgentIds == AgentIds \cup {3}

\* A policy whose rules depend on the wall clock.
TimedRules == [max_actions_per_window |-> 0, window_seconds |-> 1,
               required_data_freshness_seconds |-> 1]

NewExecution == [pc |-> "start", agent_id |-> 0, total_runs |-> 0, violations |-> 0,
                 policy_rules |-> EmptyDict, transcript |-> <<>>,
                 backend |-> "none", run_pk |-> 0, error |-> ""]

\* _mock_run without simulate_tools: one tool call for each of the first two
\* allowed tools.
MockTranscript(policy_rules) ==
    LET tools == IF Has(policy_rules, "allowed_tools")
                 THEN SubSeq(policy_rules.allowed_tools, 1, Min(2, Len(policy_rules.allowed_tools)))
                 ELSE <<>>
    IN <<[role |-> "user"], [role |-> "assistant"]>> \o
       [i \in 1..Len(tools) |->
           [role |-> "tool_call", tool |-> tools[i], args |-> [mock |-> TRUE]]]

\* How the call of the OpenGradient SDK ended.
BackendOutcomes == {"ok", "failed"}

\* execute_agent_run: the transcript of the inference, or, when the SDK call
\* raised, the transcript of the mock run it falls back to.
BackendTranscript(outcome, transcript, policy_rules) ==
    IF outcome = "ok" THEN transcript ELSE MockTranscript(policy_rules)

\* orchestrator.py 30-45: load the agent, check its status, fetch the policy.
ExecLoad(r, a) ==
    /\ req[r].pc = "start"
    /\ IF a \notin DOMAIN agents
       THEN req' = [req EXCEPT ![r].pc = "done", ![r].agent_id = a,
                               ![r].error = "Agent not found"]
       ELSE IF ~Runnable(agents[a].status)
       THEN req' = [req EXCEPT ![r].pc = "done", ![r].agent_id = a,
                               ![r].error = "Agent is not active"]
       ELSE req' = [req EXCEPT ![r].pc = "backend", ![r].agent_id = a,
                               ![r].total_runs = agents[a].total_runs,
                               ![r].violations = agents[a].violations,
                               ![r].policy_rules = PolicyRulesFor(policies, a)]
    /\ UNCHANGED <<agents, policies, runs, claims, snapshots, notifications, now, result>>

\* orchestrator.py 50-55: await og_client.execute_agent_run.
ExecBackend(r, outcome, transcript) ==
    /\ req[r].pc = "backend"
    /\ req' = [req EXCEPT ![r].pc = "store", ![r].backend = outcome,
                          ![r].transcript =
                              BackendTranscript(outcome, transcript, req[r].policy_rules)]
    /\ UNCHANGED <<agents, policies, runs, claims, snapshots, notifications, now, result>>

\* orchestrator.py 57-88: evaluate, add the Run, update the loaded agent,
\* commit.  The UPDATE sets the columns that were assigned.
ExecStore(r, seed) ==
    /\ req[r].pc = "store"
    /\ LET a == req[r].agent_id
           verdict == evaluate_policy(req[r].transcript, req[r].policy_rules,
                                      RunHistoryGiven(runs, a),
                                      RunMetadata, now, seed)
           loaded == [total_runs |-> req[r].total_runs, violations |-> req[r].violations]
           after == CountersAfterRun(loaded, verdict)
       IN /\ runs' = Append(runs, RunRow(Len(runs) + 1, a, req[r].transcript, verdict, now))
          /\ agents' = [agents EXCEPT
                 ![a].total_runs = after.total_runs,
                 ![a].violations = IF verdict.passed THEN @ ELSE after.violations]
          /\ req' = [req EXCEPT ![r].pc = "done", ![r].run_pk = Len(runs) + 1]
    /\ UNCHANGED <<policies, claims, snapshots, notifications, now, result>>

InitExec ==
    /\ agents = [a \in AgentIds |->
                    [operator_id |-> a, status |-> "active", trust_score |-> 100,
                     total_runs |-> 0, violations |-> 0,
                     chain_agent_id |-> IF a = 1 THEN 1 ELSE NoChainId]]
    /\ policies = <<[agent_id |-> 1, policy_hash |-> Sha256(StrictRules),
                     rules_json |-> StrictRules, status |-> "active"],
                    [agent_id |-> 1, policy_hash |-> Sha256(TimedRules),
                     rules_json |-> TimedRules, status |-> "deprecated"]>>
    /\ runs = <<>>
    /\ claims = <<>>
    /\ snapshots = <<>>
    /\ notifications = {}
    /\ req = [r \in 1..ExecRequests |-> NewExecution]
    /\ now = 0
    /\ result = NoResult

NextExec ==
    \/ \E r \in 1..ExecRequests, a \in ExecAgentIds : ExecLoad(r, a)
    \/ \E r \in 1..ExecRequests, outcome \in BackendOutcomes,
          transcript \in BackendTranscripts : ExecBackend(r, outcome, transcript)
    \/ \E r \in 1..ExecRequests, seed \in Seeds : ExecStore(r, seed)
    \/ \E policy_id \in 1..MaxPolicies, a \in AgentIds, op \in OperatorIds :
           ActivatePolicy(policy_id, a, op)
    \/ \E a \in AgentIds, status \in AgentStatuses : SetAgentStatus(a, status)
    \/ \E run_id \in RequestUuids(ExecRequests), proof \in ProofOutcomes, seed \in Seeds :
           ReplayRun(run_id, proof, seed)
    \/ AdvanceClock

SpecExec == InitExec /\ [][NextExec]_vars

\* ------------------------------------------------ the policy engine by itself
\* The checks are pure functions of a transcript, a rules document and the
\* run metadata (tests/test_policy_engine.py calls them directly).  They are
\* applied here to every transcript of at most EngineTurns entries.
EngineTurns == 2

ToolCall(tool, args) == [role |-> "tool_call", tool |-> tool, args |-> args]

EngineEntries ==
    {[role |-> "user"],
     [role |-> "assistant", tool |-> "delete_logs"],
     ToolCall("get_price", EmptyDict),
     ToolCall("send_funds", [value |-> NumV(100)]),
     ToolCall("send_funds", [value |-> NumV(150)]),
     ToolCall("delete_logs", [amount |-> NumV(150)]),
     ToolCall("send_funds", [value |-> StrV("abc")]),
     ToolCall("get_price", [value |-> StrV("150")]),
     ToolCall("get_price", [value |-> NoneV]),
     ToolCall("get_price", [value |-> NumV(50), amount |-> NumV(150)])}

EngineTranscripts == SeqsUpTo(EngineEntries, EngineTurns)

EnginePolicies ==
    {EmptyDict,
     [allowed_tools |-> <<>>],
     [allowed_tools |-> <<"get_price">>],
     [allowed_tools |-> <<"get_price", "send_funds">>],
     [max_value_per_action |-> 100],
     [allowed_tools |-> <<>>, max_value_per_action |-> 100],
     [allowed_tools |-> <<"get_price">>, max_value_per_action |-> 100],
     [allowed_tools |-> <<"get_price", "send_funds">>, max_value_per_action |-> 100]}

EngineMetadata ==
    {EmptyDict,
     [declared_model |-> MODEL_ID, executed_model |-> MODEL_ID],
     [declared_model |-> MODEL_ID, executed_model |-> "openai/gpt-4o"]}

InitEngine ==
    /\ agents = <<>>
    /\ policies = <<>>
    /\ runs = <<>>
    /\ claims = <<>>
    /\ snapshots = <<>>
    /\ notifications = {}
    /\ \E transcript \in EngineTranscripts, policy \in EnginePolicies,
          run_metadata \in EngineMetadata :
           req = [transcript |-> transcript, policy |-> policy,
                  run_metadata |-> run_metadata]
    /\ now = 0
    /\ result = NoResult

\* evaluate_policy(transcript, policy, run_metadata=run_metadata) in a process
\* whose string hash seed is seed.
EvaluatePolicy(seed) ==
    /\ result' = [called |-> TRUE, op |-> "evaluate_policy",
                  out |-> evaluate_policy(req.transcript, req.policy, <<>>,
                                          req.run_metadata, now, seed)]
    /\ UNCHANGED <<agents, policies, runs, claims, snapshots, notifications, req, now>>

CheckToolWhitelist(seed) ==
    /\ result' = [called |-> TRUE, op |-> "check_tool_whitelist",
                  out |-> check_tool_whitelist(req.transcript, req.policy, seed)]
    /\ UNCHANGED <<agents, policies, runs, claims, snapshots, notifications, req, now>>

CheckValueLimits ==
    /\ result' = [called |-> TRUE, op |-> "check_value_limits",
                  out |-> check_value_limits(req.transcript, req.policy)]
    /\ UNCHANGED <<agents, policies, runs, claims, snapshots, notifications, req, now>>

NextEngine ==
    \/ \E seed \in Seeds : EvaluatePolicy(seed)
    \/ \E seed \in Seeds : CheckToolWhitelist(seed)
    \/ CheckValueLimits

SpecEngine == InitEngine /\ [][NextEngine]_vars

\* ------------------------------------------------------- prohibited targets
\* check_prohibited_targets applied to every transcript of at most EngineTurns
\* entries whose tool calls name their destination under target, to or
\* address, in any case, or not at all.
TargetEntries ==
    {[role |-> "user"],
     [role |-> "assistant", args |-> [target |-> StrV("0xdead")]],
     ToolCall("get_price", EmptyDict),
     ToolCall("send_funds", [target |-> StrV("0xDEAD")]),
     ToolCall("send_funds", [to |-> StrV("0xDeAd")]),
     ToolCall("send_funds", [address |-> StrV("0xbeef")]),
     ToolCall("send_funds", [target |-> StrV("0xabc")]),
     ToolCall("send_funds", [target |-> NumV(5)]),
     ToolCall("send_funds", [target |-> StrV("0xabc"), to |-> StrV("0xdead")])}

TargetTranscripts == SeqsUpTo(TargetEntries, EngineTurns)

TargetPolicies ==
    {EmptyDict,
     [prohibited_targets |-> <<>>],
     [prohibited_targets |-> <<"0xdead">>],
     [prohibited_targets |-> <<"0xDEAD", "0xbeef">>],
     [allowed_tools |-> <<"get_price">>, prohibited_targets |-> <<"0xBEEF">>]}

InitTargets ==
    /\ agents = <<>>
    /\ policies = <<>>
    /\ runs = <<>>
    /\ claims = <<>>
    /\ snapshots = <<>>
    /\ notifications = {}
    /\ \E transcript \in TargetTranscripts, policy \in TargetPolicies :
           req = [transcript |-> transcript, policy |-> policy]
    /\ now = 0
    /\ result = NoResult

CheckProhibitedTargets(seed) ==
    /\ result' = [called |-> TRUE, op |-> "check_prohibited_targets",
                  out |-> check_prohibited_targets(req.transcript, req.policy, seed)]
    /\ UNCHANGED <<agents, policies, runs, claims, snapshots, notifications, req, now>>

NextTargets == \E seed \in Seeds : CheckProhibitedTargets(seed)

SpecTargets == InitTargets /\ [][NextTargets]_vars

\* ------------------------------------------------------ the scorer by itself
\* compute_score and snapshot_score applied to agents with a history: agent 1
\* has total_runs runs, the first violations of them failing, the next
\* recent_clean passing within the last week and the rest passing long ago;
\* its first paid_claims runs carry a paid claim and the next one, if any, an
\* approved claim that was not paid.  Agent 2 has one recent passing run with
\* a paid claim.
ScoreRuns == 7
MaxSnapshots == 2

ScoreProfiles ==
    {pr \in (0..ScoreRuns) \X (0..ScoreRuns) \X (0..ScoreRuns) \X (0..ScoreRuns) :
        pr[2] <= pr[1] /\ pr[3] <= pr[1] /\ pr[4] <= pr[1] - pr[2]}
    \cup {<<20, 3, 1, 4>>, <<30, 8, 0, 22>>}

ScoreClock == WeekDays + 1

ProfileRuns(total_runs, violations, recent_clean) ==
    [k \in 1..total_runs |->
        StoredRun(k, 1, IF k <= violations THEN BadTranscript ELSE CleanTranscript,
                  StrictRules,
                  IF k <= violations + recent_clean THEN ScoreClock ELSE 0)]
    \o <<StoredRun(total_runs + 1, 2, CleanTranscript, LooseRules, ScoreClock)>>

ProfileClaim(run_pk, a, status) ==
    [run_id |-> run_pk, agent_id |-> a,
     reason_code |-> "TOOL_WHITELIST_VIOLATION",
     evidence_hash |-> Sha256(EmptyDict),
     status |-> status,
     payout_amount |-> PAYOUT_AMOUNT,
     chain_claim_id |-> IF status = "paid" THEN run_pk ELSE NoChainId]

ProfileClaims(total_runs, paid_claims) ==
    [k \in 1..Min(total_runs, paid_claims + 1) |->
        ProfileClaim(k, 1, IF k <= paid_claims THEN "paid" ELSE "approved")]
    \o <<ProfileClaim(total_runs + 1, 2, "paid")>>

InitScore ==
    \E pr \in ScoreProfiles :
        /\ agents = [a \in AgentIds |->
               [operator_id |-> a, status |-> "active", trust_score |-> 100,
                total_runs |-> IF a = 1 THEN pr[1] ELSE 1,
                violations |-> IF a = 1 THEN pr[2] ELSE 0,
                chain_agent_id |-> IF a = 1 THEN 1 ELSE NoChainId]]
        /\ policies = <<[agent_id |-> 1, policy_hash |-> Sha256(StrictRules),
                         rules_json |-> StrictRules, status |-> "active"],
                        [agent_id |-> 2, policy_hash |-> Sha256(LooseRules),
                         rules_json |-> LooseRules, status |-> "active"]>>
        /\ runs = ProfileRuns(pr[1], pr[2], pr[4])
        /\ claims = ProfileClaims(pr[1], pr[3])
        /\ snapshots = <<>>
        /\ notifications = {}
        /\ req = <<>>
        /\ now = ScoreClock
        /\ result = NoResult

\* await compute_score(db, agent_id)
ComputeScore(a) ==
    /\ result' = [called |-> TRUE, op |-> "compute_score", agent_id |-> a,
                  out |-> compute_score(agents, claims, runs, a, now)]
    /\ UNCHANGED <<agents, policies, runs, claims, snapshots, notifications, req, now>>

\* await snapshot_score(db, agent_id); sync is how contracts.update_score
\* ended, which is called for an agent that is registered on chain.
SnapshotScore(a, sync) ==
    /\ Len(snapshots) < MaxSnapshots
    /\ snapshot_score(a)
    /\ result' = [called |-> TRUE, op |-> "snapshot_score", agent_id |-> a,
                  sync |-> sync,
                  out |-> ReturnedAfterSync(sync, agents[a].chain_agent_id # NoChainId,
                                            compute_score(agents, claims, runs, a, now))]
    /\ UNCHANGED <<policies, runs, claims, notifications, req, now>>

NextScore ==
    \/ \E a \in AgentIds : ComputeScore(a)
    \/ \E a \in AgentIds, sync \in SyncOutcomes : SnapshotScore(a, sync)

SpecScore == InitScore /\ [][NextScore]_vars

\* ------------------------------------------------------------- rate limiting
\* RateLimitMiddleware of middleware.py.  req is self.requests, the accepted
\* timestamps of each client IP; now is time.time() in seconds, which the
\* behaviour advances in steps of TickSeconds; notifications is the log of the
\* requests handed to call_next.  dispatch does not await between reading and
\* writing self.requests, so it is one step.
LimitRpm == 2         \* requests_per_minute
LimitTicks == 5       \* the clock stops after this many steps
TickSeconds == 20
WindowSeconds == 60

ClientIps == {"10.0.0.1", "10.0.0.2"}

\* Mutant: a timestamp exactly one window old still counts.
NotOlder(t, window_start) == t >= window_start

\* t > window_start
Younger(t, window_start) == t > window_start

InitLimit ==
    /\ agents = <<>>
    /\ policies = <<>>
    /\ runs = <<>>
    /\ claims = <<>>
    /\ snapshots = <<>>
    /\ notifications = {}
    /\ req = [ip \in ClientIps |-> <<>>]
    /\ now = 0
    /\ result = NoResult

\* RateLimitMiddleware.dispatch for a request of client_ip
Dispatch(client_ip) ==
    LET window_start == now - WindowSeconds
        recent == SelectSeq(req[client_ip], LAMBDA t : Younger(t, window_start))
        same == {e \in notifications : e.client_ip = client_ip /\ e.at = now}
    IN /\ IF Len(recent) >= LimitRpm
          THEN /\ req' = [req EXCEPT ![client_ip] = recent]
               /\ result' = [called |-> TRUE, op |-> "dispatch", client_ip |-> client_ip,
                             at |-> now, status_code |-> 429, forwarded |-> FALSE]
               /\ UNCHANGED notifications
          ELSE /\ req' = [req EXCEPT ![client_ip] = Append(recent, now)]
               /\ result' = [called |-> TRUE, op |-> "dispatch", client_ip |-> client_ip,
                             at |-> now, status_code |-> 200, forwarded |-> TRUE]
               /\ notifications' = notifications \cup
                      {[client_ip |-> client_ip, at |-> now, nth |-> Cardinality(same) + 1]}
       /\ UNCHANGED <<agents, policies, runs, claims, snapshots, now>>

\* Time passes.
Tick ==
    /\ now < LimitTicks * TickSeconds
    /\ now' = now + TickSeconds
    /\ UNCHANGED <<agents, policies, runs, claims, snapshots, notifications, req, result>>

NextLimit ==
    \/ \E client_ip \in ClientIps : Dispatch(client_ip)
    \/ Tick

SpecLimit == InitLimit /\ [][NextLimit]_vars

\* ------------------------------------------- the pipeline under timed rules
\* Agent 1 runs under one of PipelineRules, among them rules for the action
\* frequency and the data freshness; runs are executed and replayed and claims
\* with each of the six reason codes are submitted while the clock moves.
NegativeLimitRules == [max_actions_per_window |-> -1, window_seconds |-> 60]

PipelineRules == {StrictRules, TimedRules, NegativeLimitRules}

InitPipeline ==
    /\ agents = [a \in AgentIds |->
                    [operator_id |-> a, status |-> "active", trust_score |-> 100,
                     total_runs |-> 0, violations |-> 0,
                     chain_agent_id |-> IF a = 1 THEN 1 ELSE NoChainId]]
    /\ \E rules \in PipelineRules :
           policies = <<[agent_id |-> 1, policy_hash |-> Sha256(rules),
                         rules_json |-> rules, status |-> "active"]>>
    /\ runs = <<>>
    /\ claims = <<>>
    /\ snapshots = <<>>
    /\ notifications = {}
    /\ req = <<NewRequest>>
    /\ now = 0
    /\ result = NoResult

NextPipeline ==
    \/ \E a \in AgentIds, transcript \in BackendTranscripts, seed \in Seeds :
           ExecuteRun(a, transcript, seed)
    \/ \E run_id \in RequestUuids(MaxRuns), proof \in ProofOutcomes, seed \in Seeds :
           ReplayRun(run_id, proof, seed)
    \/ AdvanceClock
    \/ \E run_id \in RequestUuids(MaxRuns), agent_id \in AgentIds,
          reason_code \in VALID_REASON_CODES :
           SubmitCheck(1, run_id, agent_id, reason_code)
    \/ SubmitInsert(1)
    \/ \E seed \in Seeds : SubmitVerify(1, seed)
    \/ \E sync \in SyncOutcomes : SubmitSnapshot(1, sync)
    \/ \E outcome \in ChainOutcomes : SubmitSettle(1, outcome)

SpecPipeline == InitPipeline /\ [][NextPipeline]_vars

\* ------------------------------------------------------------ webhook delivery
\* notify_operator calls run as background tasks, one per event; each is at
\* one of its awaits: "new" before the lookups, "sleep" in asyncio.sleep,
\* "post" before _deliver_once, "done" after its return.  req holds the calls,
\* notifications is the webhook_deliveries table.
WebhookCalls == 2

MAX_RETRIES == 3

RETRY_DELAYS == <<0, 2, 8>>

\* RETRY_DELAYS[:MAX_RETRIES]
RetrySchedule == SubSeq(RETRY_DELAYS, 1, Min(MAX_RETRIES, Len(RETRY_DELAYS)))

WebhookEvents == <<"claim.submitted", "claim.resolved", "score.changed">>

\* The operators table: operator 1 has a webhook URL, operator 2 has none.
WebhookOperators ==
    [o \in OperatorIds |->
        [webhook_url |-> IF o = 1 THEN StrV("https://example.com/webhook") ELSE NoneV,
         api_key |-> IF o = 1 THEN StrV("test-key-123") ELSE NoneV]]

\* The agent ids events are raised for: the agents and one of no agent.
NotifyAgentIds == AgentIds \cup {99999}

\* What one POST ends with: the status code of the response, or None when
\* the client raised (refused connection, timeout).
PostOutcomes == {NumV(101), NumV(200), NumV(500), NoneV}

NewCall(c) == [pc |-> "new", agent_id |-> 0, operator_id |-> 0,
               event_type |-> WebhookEvents[c], attempt |-> 0,
               slept |-> 0, waits |-> <<>>, returned |-> FALSE]

InitWebhook ==
    /\ agents = [a \in AgentIds |->
                    [operator_id |-> a, status |-> "active", trust_score |-> 100,
                     total_runs |-> 0, violations |-> 0,
                     chain_agent_id |-> IF a = 1 THEN 1 ELSE NoChainId]]
    /\ policies = <<>>
    /\ runs = <<>>
    /\ claims = <<>>
    /\ snapshots = <<>>
    /\ notifications = <<>>
    /\ req = [c \in 1..WebhookCalls |-> NewCall(c)]
    /\ now = 0
    /\ result = NoResult

\* not operator.webhook_url
NoWebhookUrl(operator) ==
    operator.webhook_url.t # "str" \/ operator.webhook_url.s = ""

\* success = status_code < 300; it stays False when the POST raised.
Succeeded(status_code) == status_code.t = "num" /\ status_code.n < 300

Returned(call, value) == [call EXCEPT !.pc = "done", !.returned = value]

\* The head of the loop over enumerate(RETRY_DELAYS[:MAX_RETRIES], start=1):
\* the attempt after `attempt`, or the return that follows the loop.
NextAttempt(call) ==
    LET k == call.attempt + 1
    IN IF k > Len(RetrySchedule)
       THEN Returned(call, FALSE)
       ELSE [call EXCEPT !.attempt = k,
                         !.pc = IF RetrySchedule[k] > 0 THEN "sleep" ELSE "post"]

\* notify_operator up to the loop: the two lookups.
NotifyOperator(c, agent_id) ==
    /\ req[c].pc = "new"
    /\ LET call == [req[c] EXCEPT !.agent_id = agent_id]
       IN IF agent_id \notin DOMAIN agents
          THEN req' = [req EXCEPT ![c] = Returned(call, FALSE)]
          ELSE LET operator_id == agents[agent_id].operator_id
               IN IF \/ operator_id \notin DOMAIN WebhookOperators
                     \/ NoWebhookUrl(WebhookOperators[operator_id])
                  THEN req' = [req EXCEPT ![c] = Returned(call, FALSE)]
                  ELSE req' = [req EXCEPT ![c] =
                                  NextAttempt([call EXCEPT !.operator_id = operator_id])]
    /\ UNCHANGED <<agents, policies, runs, claims, snapshots, notifications, now, result>>

\* await asyncio.sleep(delay)
NotifySleep(c) ==
    /\ req[c].pc = "sleep"
    /\ req' = [req EXCEPT ![c].pc = "post",
                          ![c].slept = @ + RetrySchedule[req[c].attempt]]
    /\ UNCHANGED <<agents, policies, runs, claims, snapshots, notifications, now, result>>

WebhookDelivery(call, status_code) ==
    [operator_id |-> call.operator_id, agent_id |-> call.agent_id,
     event_type |-> call.event_type,
     webhook_url |-> WebhookOperators[call.operator_id].webhook_url,
     attempt |-> call.attempt, status_code |-> status_code,
     success |-> Succeeded(status_code)]

\* _deliver_once and the rest of the loop body: the POST, the audit record,
\* and the return or the next attempt.
DeliverOnce(c, status_code) ==
    /\ req[c].pc = "post"
    /\ notifications' = Append(notifications, WebhookDelivery(req[c], status_code))
    /\ LET call == [req[c] EXCEPT !.waits = Append(@, req[c].slept), !.slept = 0]
       IN req' = [req EXCEPT ![c] = IF Succeeded(status_code)
                                    THEN Returned(call, TRUE)
                                    ELSE NextAttempt(call)]
    /\ UNCHANGED <<agents, policies, runs, claims, snapshots, now, result>>

NextWebhook ==
    \/ \E c \in 1..WebhookCalls, agent_id \in NotifyAgentIds : NotifyOperator(c, agent_id)
    \/ \E c \in 1..WebhookCalls : NotifySleep(c)
    \/ \E c \in 1..WebhookCalls, status_code \in PostOutcomes : DeliverOnce(c, status_code)

SpecWebhook == InitWebhook /\ [][NextWebhook]_vars

\* ================================================================== claims
\* C1: in every reachable state at most one Claim row references any given
\* Run, whatever the interleaving of the submit_claim calls.
C1_OneClaimPerRun ==
    \A i, j \in Ids(claims) : claims[i].run_id = claims[j].run_id => i = j

\* C2: a submit_claim with a valid reason code for a run that already has a
\* committed claim is answered 409 by its first step, before verify_claim:
\* no Claim row is created, no claim changes, no snapshot is written and no
\* notification is scheduled.
C2_DuplicateRejectedWithConflict ==
    [][\A r \in DOMAIN req, run_id \in RequestUuids(Len(runs)),
          agent_id \in AgentIds, reason_code \in VALID_REASON_CODES :
          ( /\ SubmitCheck(r, run_id, agent_id, reason_code)
            /\ \E run_pk \in RunPksByUuid(runs, run_id) :
                   ClaimsOfRun(claims, run_pk) # {} )
          => /\ req'[r].pc = "done"
             /\ req'[r].code = 409
             /\ UNCHANGED <<claims, snapshots, notifications, agents>>]_vars

\* C3: a claim row starts in submitted, rows are never removed, and the only
\* status changes are submitted->approved, submitted->rejected and
\* approved->paid.
ForwardTransitions ==
    {<<"submitted", "approved">>, <<"submitted", "rejected">>, <<"approved", "paid">>}

C3_StatusMovesForward ==
    [][/\ Len(claims') >= Len(claims)
       /\ \A i \in Ids(claims') :
              IF i \in Ids(claims)
              THEN \/ claims'[i].status = claims[i].status
                   \/ <<claims[i].status, claims'[i].status>> \in ForwardTransitions
              ELSE claims'[i].status = "submitted"]_vars

\* C3 witness: a claim went submitted->approved->paid.
C3_Witness == \E i \in Ids(claims) : claims[i].status = "paid"

\* C4: once submit_claim has returned its outcome, the claim is no longer in
\* submitted: approved or paid when verification approved it, rejected
\* otherwise.
C4_ResolvedAfterSubmit ==
    \A r \in DOMAIN req :
        (req[r].pc = "done" /\ req[r].code = 200)
        => IF req[r].approved
           THEN claims[req[r].claim_id].status \in {"approved", "paid"}
           ELSE claims[req[r].claim_id].status = "rejected"

\* C5: for a submitted claim with a valid reason code and an existing run,
\* verify_claim answers valid, approves exactly when the reason code is among
\* the failed codes of a fresh evaluation of the run's stored transcript under
\* the policy of the run's agent, and returns that evaluation's hash.
SixReasonCodes ==
    {"TOOL_WHITELIST_VIOLATION", "VALUE_LIMIT_EXCEEDED", "PROHIBITED_TARGET",
     "FREQUENCY_EXCEEDED", "STALE_DATA", "MODEL_MISMATCH"}

Decidable(cid) ==
    /\ cid \in Ids(claims)
    /\ claims[cid].status = "submitted"
    /\ claims[cid].reason_code \in SixReasonCodes
    /\ claims[cid].run_id \in Ids(runs)

C5_ApprovedIffReasonFailed ==
    (result.called /\ Decidable(result.claim_id))
    => LET claim == claims[result.claim_id]
           run == runs[claim.run_id]
           v == result.verification
       IN \E seed \in Seeds :
             LET fresh == evaluate_policy(run.transcript_json,
                                          PolicyRulesFor(policies, run.agent_id),
                                          <<>>, EmptyDict, now, seed)
             IN /\ v.valid
                /\ v.approved <=> claim.reason_code \in Range(fresh.failed_codes)
                /\ v.evidence_hash = fresh.evidence_hash

\* C5 witness: a decidable claim was verified and approved.
C5_Witness ==
    /\ result.called
    /\ Decidable(result.claim_id)
    /\ result.verification.approved

\* C6: verify_claim on an unknown claim id or on a claim that is not in
\* submitted answers valid=false, approved=false with the reason that names
\* the case, and leaves claims, runs, agents and policies as they were.
C6_UnverifiableUntouched ==
    [][result' # result
       => /\ UNCHANGED <<claims, runs, agents, policies>>
          /\ LET cid == result'.claim_id
                 v == result'.verification
             IN /\ cid \notin Ids(claims)
                   => ~v.valid /\ ~v.approved /\ v.reason = "Claim not found"
                /\ (cid \in Ids(claims) /\ claims[cid].status # "submitted")
                   => ~v.valid /\ ~v.approved /\ v.reason = "Invalid claim status"]_vars

\* C6 witness: an approved claim was handed to verify_claim and refused.
C6_Witness ==
    /\ result.called
    /\ result.claim_id \in Ids(claims)
    /\ claims[result.claim_id].status = "approved"
    /\ ~result.verification.valid

\* C7: for a submitted claim whose reason code is outside the six codes, or
\* whose run does not exist, verify_claim answers valid=true, approved=false
\* and does not evaluate the policy engine.
C7_InconclusiveIsBusinessOutcome ==
    LET cid == result.claim_id
        v == result.verification
    IN ( /\ result.called
         /\ cid \in Ids(claims)
         /\ claims[cid].status = "submitted"
         /\ \/ claims[cid].reason_code \notin SixReasonCodes
            \/ claims[cid].run_id \notin Ids(runs) )
       => v.valid /\ ~v.approved /\ ~v.evaluated

\* C7 witness: a submitted claim with an invalid reason code on an existing
\* run was verified.
C7_Witness ==
    /\ result.called
    /\ result.claim_id \in Ids(claims)
    /\ claims[result.claim_id].status = "submitted"
    /\ claims[result.claim_id].reason_code \notin SixReasonCodes
    /\ claims[result.claim_id].run_id \in Ids(runs)
    /\ result.verification.valid

\* C8: the verification step of submit_claim judges the run under the rules
\* of the active policy with the highest id that the run's agent has at that
\* moment, and under no rules when the agent has no active policy; then the
\* claim is not approved.
CurrentRules(a) ==
    LET act == {i \in Ids(policies) :
                   policies[i].agent_id = a /\ policies[i].status = "active"}
    IN IF act = {} THEN EmptyDict
       ELSE policies[CHOOSE i \in act : \A j \in act : j <= i].rules_json

C8_JudgedByCurrentPolicy ==
    [][\A r \in DOMAIN req :
          (req[r].pc = "verify" /\ req'[r].pc # "verify")
          => LET claim == claims[req[r].claim_id]
                 run == runs[claim.run_id]
                 fresh == evaluate_policy(run.transcript_json, CurrentRules(run.agent_id),
                                          <<>>, EmptyDict, now, 0)
             IN /\ req'[r].approved <=> claim.reason_code \in Range(fresh.failed_codes)
                /\ CurrentRules(run.agent_id) = EmptyDict => ~req'[r].approved]_vars

\* C8 witness: the run was stored with TOOL_WHITELIST_VIOLATION among its
\* reason codes, the policy changed, and the claim for that code was not
\* approved.
C8_Witness ==
    \E r \in DOMAIN req :
        /\ req[r].pc = "done"
        /\ req[r].code = 200
        /\ ~req[r].approved
        /\ req[r].reason_code = "TOOL_WHITELIST_VIOLATION"
        /\ ~runs[req[r].run_pk].reason_codes.none
        /\ "TOOL_WHITELIST_VIOLATION" \in Range(runs[req[r].run_pk].reason_codes.list)

\* C9: in every reachable state at most one policy of an agent is active.
C9_AtMostOneActivePolicy ==
    \A a \in AgentIds : Cardinality(ActivePolicyIds(policies, a)) <= 1

\* C10: the status of a policy changes only from active to deprecated, and
\* its rules never change.
C10_DeprecationIsFinal ==
    [][\A i \in Ids(policies) :
          /\ i \in Ids(policies')
          /\ policies'[i].rules_json = policies[i].rules_json
          /\ policies'[i].status # policies[i].status
             => policies[i].status = "active" /\ policies'[i].status = "deprecated"]_vars

\* C11: no step changes a persisted Run: every row that exists keeps its
\* transcript, hashes, verdict and reason codes, and a replay answers with the
\* fresh verdict next to the stored one.
C11_RunsNeverModified ==
    [][/\ \A i \in Ids(runs) : i \in Ids(runs') /\ runs'[i] = runs[i]
       /\ (result' # result /\ result'.op = "replay_run" /\ "error" \notin DOMAIN result'.response)
          => \E i \in Ids(runs) :
                /\ runs[i].run_id = result'.run_id
                /\ result'.response.original_verdict = runs[i].policy_verdict
                /\ \E seed \in Seeds :
                      result'.response.policy_verdict =
                          IF ReplayVerdict(runs, policies, i, now, seed).passed
                          THEN "pass" ELSE "fail"]_vars

\* C11 witness: a replay answered a fresh verdict that differs from the stored
\* one while a second run exists.
C11_Witness ==
    /\ result.called
    /\ Len(runs) = 2
    /\ "error" \notin DOMAIN result.response
    /\ result.response.policy_verdict # result.response.original_verdict

\* C14: a step that persists a Run persists exactly one, adds 1 to the
\* total_runs of the run's agent and 1 to its violations exactly when the
\* stored verdict is fail; no step lowers a counter or touches the counters of
\* another agent, and violations never exceeds total_runs.
C14_CountersFollowRuns ==
    [][/\ Len(runs') \in {Len(runs), Len(runs) + 1}
       /\ \A a \in AgentIds :
             LET ran == Len(runs') = Len(runs) + 1 /\ runs'[Len(runs')].agent_id = a
                 failed == ran /\ runs'[Len(runs')].policy_verdict = "fail"
             IN /\ agents'[a].total_runs = agents[a].total_runs + (IF ran THEN 1 ELSE 0)
                /\ agents'[a].violations = agents[a].violations + (IF failed THEN 1 ELSE 0)
                /\ agents'[a].violations <= agents'[a].total_runs]_vars

\* C14 witness: an agent has two runs, one of them a violation.
C14_Witness ==
    \E a \in AgentIds : agents[a].total_runs = 2 /\ agents[a].violations = 1

\* The failed codes a Run row stores: the column is NULL when there are none.
StoredFailedCodes(run) == IF run.reason_codes.none THEN <<>> ELSE run.reason_codes.list

\* C12: when replay_run answers for a run that execute_run created under the
\* rules that are still the agent's active rules, the replayed verdict equals
\* original_verdict and the replayed reason codes are the stored failed codes.
C12_ReplayReproducesVerdict ==
    [][(result' # result /\ "error" \notin DOMAIN result'.response)
       => \A r \in DOMAIN req :
             LET run_pk == req[r].run_pk IN
             ( /\ run_pk # 0
               /\ runs[run_pk].run_id = result'.run_id
               /\ req[r].policy_rules = PolicyRulesFor(policies, runs[run_pk].agent_id) )
             => /\ result'.response.policy_verdict = result'.response.original_verdict
                /\ result'.response.reason_codes = StoredFailedCodes(runs[run_pk])]_vars

\* C12 witness: a failing run was replayed under the rules it ran under and
\* the replay answered fail; the clock has moved on since the run.
C12_Witness ==
    /\ result.called
    /\ "error" \notin DOMAIN result.response
    /\ now > 0
    /\ result.response.policy_verdict = "fail"
    /\ \E r \in DOMAIN req :
          /\ req[r].run_pk # 0
          /\ runs[req[r].run_pk].run_id = result.run_id
          /\ runs[req[r].run_pk].created_at = 0
          /\ req[r].policy_rules = PolicyRulesFor(policies, runs[req[r].run_pk].agent_id)

\* C13: once every execute_run call has finished, each agent's total_runs is
\* the number of its Runs and its violations the number of its failing Runs.
RunsOf(a) == {i \in Ids(runs) : runs[i].agent_id = a}

C13_NoLostCounterUpdate ==
    (\A r \in DOMAIN req : req[r].pc = "done")
    => \A a \in AgentIds :
          /\ agents[a].total_runs = Cardinality(RunsOf(a))
          /\ agents[a].violations =
                 Cardinality({i \in RunsOf(a) : runs[i].policy_verdict = "fail"})

\* C15: execute_run for an agent that does not exist or is not active ends
\* with an error at once: no Run is added, the counters stay, and the call
\* never reaches the execution backend; for an active agent it goes on.
C15_InactiveAgentRejected ==
    [][\A r \in DOMAIN req :
          (req[r].pc = "start" /\ req'[r].pc # "start")
          => LET a == req'[r].agent_id IN
             IF a \notin DOMAIN agents \/ agents[a].status # "active"
             THEN /\ req'[r].pc = "done"
                  /\ req'[r].error # ""
                  /\ req'[r].backend = "none"
                  /\ req'[r].run_pk = 0
                  /\ UNCHANGED <<runs, agents>>
             ELSE req'[r].pc = "backend" /\ req'[r].error = ""]_vars

\* C15 witness: one call was refused for a missing agent and another for a
\* paused one.
C15_Witness ==
    /\ \E r \in DOMAIN req : req[r].pc = "done" /\ req[r].agent_id \notin DOMAIN agents
    /\ \E r \in DOMAIN req :
          /\ req[r].pc = "done"
          /\ req[r].error = "Agent is not active"
          /\ agents[req[r].agent_id].status = "paused"

\* C16: a call whose execution backend failed persists no Run.
C16_BackendFailureAborts ==
    \A r \in DOMAIN req : req[r].backend = "failed" => req[r].run_pk = 0

\* The reason codes in the order of the rule table.
CodeOrder ==
    <<"TOOL_WHITELIST_VIOLATION", "VALUE_LIMIT_EXCEEDED", "PROHIBITED_TARGET",
      "FREQUENCY_EXCEEDED", "STALE_DATA", "MODEL_MISMATCH">>

\* C17: evaluate_policy returns six results whose codes are the rule table in
\* order; passed holds exactly when all six passed and exactly when
\* failed_codes is empty; failed_codes is the table restricted to the codes
\* whose result failed, each at most once.
C17_SixResultsInOrder ==
    (result.called /\ result.op = "evaluate_policy")
    => LET v == result.out
           failing == {v.results[i].reason_code :
                          i \in {j \in 1..Len(v.results) : ~v.results[j].passed}}
           fails(code) == code \in failing
       IN /\ Len(v.results) = 6
          /\ \A i \in 1..6 : v.results[i].reason_code = CodeOrder[i]
          /\ v.passed <=> \A i \in 1..6 : v.results[i].passed
          /\ v.failed_codes = SelectSeq(CodeOrder, fails)
          /\ \A i, j \in 1..Len(v.failed_codes) :
                v.failed_codes[i] = v.failed_codes[j] => i = j
          /\ v.passed <=> v.failed_codes = <<>>

\* C17 witness: an evaluation failed its first, second and last check.
C17_Witness ==
    /\ result.called
    /\ result.op = "evaluate_policy"
    /\ result.out.failed_codes =
           <<"TOOL_WHITELIST_VIOLATION", "VALUE_LIMIT_EXCEEDED", "MODEL_MISMATCH">>

\* C18: two evaluate_policy calls on the same transcript, rules and metadata,
\* with no rule that reads the clock, return the same evidence_hash, passed
\* and failed_codes, whichever process makes the call.
C18_SameInputsSameHash ==
    [][( /\ result.called /\ result.op = "evaluate_policy"
         /\ result'.op = "evaluate_policy" )
       => /\ result'.out.evidence_hash = result.out.evidence_hash
          /\ result'.out.passed = result.out.passed
          /\ result'.out.failed_codes = result.out.failed_codes]_vars

C20_ValueLimitVerdict ==
    (result.called /\ result.op = "check_value_limits")
    => LET carried(entry) ==
               IF "args" \in DOMAIN entry
               THEN {entry.args[k] : k \in {"value", "amount"} \cap DOMAIN entry.args}
               ELSE {}
           within(entry) ==
               \A v \in carried(entry) :
                   CanFloat(v) => Float(v) <= req.policy.max_value_per_action
       IN result.out.passed
          <=> \/ "max_value_per_action" \notin DOMAIN req.policy
              \/ \A i \in 1..Len(req.transcript) :
                    req.transcript[i].role = "tool_call" => within(req.transcript[i])

\* C21: check_prohibited_targets passes exactly when prohibited_targets is
\* unset or empty or no tool_call entry carries, under target, to or address,
\* a string that equals a prohibited entry once both are lower-cased.
C21_ProhibitedTargetVerdict ==
    (result.called /\ result.op = "check_prohibited_targets")
    => LET prohibited ==
               IF "prohibited_targets" \in DOMAIN req.policy
               THEN {Lower(req.policy.prohibited_targets[i]) :
                        i \in 1..Len(req.policy.prohibited_targets)}
               ELSE {}
           carried(entry) ==
               IF "args" \in DOMAIN entry
               THEN {entry.args[k] : k \in {"target", "to", "address"} \cap DOMAIN entry.args}
               ELSE {}
           hits(entry) ==
               \E v \in carried(entry) : v.t = "str" /\ Lower(v.s) \in prohibited
       IN result.out.passed
          <=> \/ prohibited = {}
              \/ \A i \in 1..Len(req.transcript) :
                    req.transcript[i].role = "tool_call" => ~hits(req.transcript[i])

\* C22: every score compute_score or snapshot_score returns is an integer
\* from 0 to 100, and so are the trust_score of every agent and the score of
\* every snapshot, in every reachable state.
C22_ScoreWithinBounds ==
    /\ (result.called /\ result.op \in {"compute_score", "snapshot_score"})
       => result.out.score \in 0..100
    /\ \A a \in DOMAIN agents : agents[a].trust_score \in 0..100
    /\ \A i \in Ids(snapshots) : snapshots[i].score \in 0..100

\* C22 witness: an agent without violations or paid claims and with two or
\* more recent clean runs, whose terms add up to more than 100, was
\* snapshotted at 100.
C22_Witness ==
    /\ result.called
    /\ result.op = "snapshot_score"
    /\ agents[result.agent_id].total_runs >= 2
    /\ agents[result.agent_id].violations = 0
    /\ result.out.paid_claims = 0
    /\ Cardinality({i \in Ids(runs) : /\ runs[i].agent_id = result.agent_id
                                      /\ runs[i].policy_verdict = "pass"
                                      /\ runs[i].created_at >= now - 7}) >= 2
    /\ snapshots[Len(snapshots)].score = 100
    /\ agents[result.agent_id].trust_score = 100

\* round(n / d) for d > 0, a tie going to the even neighbour.
RoundHalfEven(n, d) ==
    LET q == n \div d
        r == n % d
    IN IF 2 * r < d THEN q
       ELSE IF 2 * r > d THEN q + 1
       ELSE IF q % 2 = 0 THEN q ELSE q + 1

\* The reference formula over the common denominator 2 * total_runs:
\*   clamp(round(100 - min(60*v/t, 60) - min(30*p/t, 30) + min(0.5*rc, 10)), 0, 100)
ScoreFormula(total_runs, violations, paid_claims, recent_clean) ==
    LET d == 2 * total_runs
        n == 200 * total_runs
             - Min(120 * violations, 120 * total_runs)
             - Min(60 * paid_claims, 60 * total_runs)
             + Min(recent_clean * total_runs, 20 * total_runs)
    IN Min(100, Max(0, RoundHalfEven(n, d)))

\* C23: compute_score answers 100 with all terms 0 for an agent without runs,
\* and otherwise the reference formula over the agent's counters, the number
\* of its claims in status paid and the number of its passing runs of the
\* last 7 days.
C23_ScoreEqualsFormula ==
    (result.called /\ result.op = "compute_score")
    => LET a == result.agent_id
           paid == Cardinality({i \in Ids(claims) :
                                   claims[i].agent_id = a /\ claims[i].status = "paid"})
           clean == Cardinality({i \in Ids(runs) : /\ runs[i].agent_id = a
                                                   /\ runs[i].policy_verdict = "pass"
                                                   /\ runs[i].created_at >= now - 7})
       IN IF agents[a].total_runs = 0
          THEN /\ result.out.score = 100
               /\ result.out.breakdown.violation_penalty = 0
               /\ result.out.breakdown.claim_penalty = 0
               /\ result.out.breakdown.recency_bonus = 0
          ELSE result.out.score =
                   ScoreFormula(agents[a].total_runs, agents[a].violations, paid, clean)

C25_SettlementFailureNonFatal ==
    [][\A r \in DOMAIN req :
          /\ (req[r].pc = "snapshot" /\ req'[r].pc # "snapshot")
             => req'[r].pc = "notify" /\ Len(snapshots') = Len(snapshots) + 1
          /\ (req[r].pc = "notify" /\ req'[r].pc # "notify")
             => LET cid == req[r].claim_id IN
                /\ req'[r].pc = "done"
                /\ req'[r].code = 200
                /\ req'[r].approved = req[r].approved
                /\ snapshots' = snapshots
                /\ agents' = agents
                /\ claims'[cid].payout_amount = claims[cid].payout_amount
                /\ req[r].approved => claims'[cid].status \in {"approved", "paid"}
                /\ ~req[r].approved => claims'[cid].status = claims[cid].status
                /\ claims'[cid].status # claims[cid].status
                   => /\ claims'[cid].status = "paid"
                      /\ agents[req[r].agent_id].chain_agent_id # NoChainId
                      /\ SubmitSettle(r, "ok")]_vars

\* C25 witness: a claim was approved and submitted on chain, a later chain
\* call failed, and the request answered approved with the claim approved and
\* its snapshot in place.
C25_Witness ==
    \E r \in DOMAIN req :
        /\ req[r].pc = "done"
        /\ req[r].code = 200
        /\ req[r].approved
        /\ claims[req[r].claim_id].status = "approved"
        /\ claims[req[r].claim_id].payout_amount > 0
        /\ claims[req[r].claim_id].chain_claim_id # NoChainId
        /\ \E i \in Ids(snapshots) : snapshots[i].agent_id = req[r].agent_id

\* C27: in every reachable state the agent of a claim is the agent of the run
\* the claim references.
C27_ClaimAgentOwnsRun ==
    \A i \in Ids(claims) :
        claims[i].run_id \in Ids(runs) => claims[i].agent_id = runs[claims[i].run_id].agent_id

\* C28: the step of submit_claim that moves a claim from approved to paid
\* leaves the agent's trust_score, and the score of its latest snapshot, equal
\* to compute_score on the state it produced.
C28_RescoredAfterPaid ==
    [][\A r \in DOMAIN req :
          ( /\ req[r].pc = "notify" /\ req'[r].pc = "done"
            /\ claims[req[r].claim_id].status = "approved"
            /\ claims'[req[r].claim_id].status = "paid" )
          => LET a == req[r].agent_id
                 final == compute_score(agents', claims', runs', a, now')
                 mine == {i \in Ids(snapshots') : snapshots'[i].agent_id = a}
             IN /\ agents'[a].trust_score = final.score
                /\ mine # {}
                /\ snapshots'[CHOOSE i \in mine : \A j \in mine : j <= i].score = final.score]_vars

\* C26: a request is answered 429 and not forwarded exactly when
\* requests_per_minute forwarded requests of its IP are younger than 60
\* seconds, and is forwarded otherwise; a rejected request is not recorded;
\* the timestamps of other IPs stay; and in every window of 60 seconds at
\* most requests_per_minute requests of one IP are forwarded.
Forwarded(log, ip, from, to) ==
    Cardinality({e \in log : e.client_ip = ip /\ e.at >= from /\ e.at < to})

C26_RateLimitPerIp ==
    [][/\ \A ip \in DOMAIN req' :
             \A e \in notifications' :
                 Forwarded(notifications', ip, e.at, e.at + 60) <= LimitRpm
       /\ result' # result
          => LET ip == result'.client_ip
                 young == {e \in notifications : e.client_ip = ip /\ e.at > now - 60}
             IN /\ result'.status_code = 429 <=> Cardinality(young) >= LimitRpm
                /\ result'.forwarded <=> result'.status_code # 429
                /\ IF result'.status_code = 429
                   THEN /\ notifications' = notifications
                        /\ \A i \in 1..Len(req'[ip]) : req'[ip][i] # now \/ now \in Range(req[ip])
                        /\ Len(req'[ip]) <= Len(req[ip])
                   ELSE /\ Cardinality(notifications') = Cardinality(notifications) + 1
                        /\ \E e \in notifications' \ notifications :
                               e.client_ip = ip /\ e.at = now
                /\ \A other \in DOMAIN req : other # ip => req'[other] = req[other]]_vars

\* C26 witness: one IP is being refused while the other one was forwarded at
\* the same moment, while a request of the refused IP that is exactly 60
\* seconds old lies outside its window.
C26_Witness ==
    /\ result.called
    /\ result.status_code = 429
    /\ \E e \in notifications : e.client_ip # result.client_ip /\ e.at = now
    /\ \E e \in notifications : e.client_ip = result.client_ip /\ e.at = now - 60

\* The three codes whose checks read the transcript alone.
TranscriptCodes == {"TOOL_WHITELIST_VIOLATION", "VALUE_LIMIT_EXCEEDED", "PROHIBITED_TARGET"}

PipelineKeepsToTranscriptCodes ==
    /\ \A i \in Ids(runs) :
          runs[i].reason_codes.none
          \/ \A k \in 1..Len(runs[i].reason_codes.list) :
                 runs[i].reason_codes.list[k] \in TranscriptCodes
    /\ \A i \in Ids(claims) :
          claims[i].status \in {"approved", "paid"} => claims[i].reason_code \in TranscriptCodes
    /\ (result.called /\ "error" \notin DOMAIN result.response)
       => \A k \in 1..Len(result.response.reason_codes) :
              result.response.reason_codes[k] \in TranscriptCodes

\* C29 as stated: whatever the policy and the transcript, the reason codes of
\* every stored Run and of every replay are among the three transcript codes,
\* and no claim made with one of the other three codes is approved.
C29_OtherChecksNeverFail == PipelineKeepsToTranscriptCodes

\* A frequency rule whose limit is below zero fails with no history at all.
LimitsNotNegative ==
    \A i \in Ids(policies) :
        "max_actions_per_window" \in DOMAIN policies[i].rules_json
        => policies[i].rules_json.max_actions_per_window >= 0

\* C29 amended: when no policy sets max_actions_per_window below zero, the
\* reason codes of every stored Run and of every replay are among the three
\* transcript codes, and no claim made with one of the other three codes is
\* approved.
C29_OtherChecksPassUnlessNegativeLimit ==
    LimitsNotNegative => PipelineKeepsToTranscriptCodes

\* C29 witness: under rules that allow no action per window and ask for fresh
\* data, a run was stored without reason codes and replayed, and a claim of
\* FREQUENCY_EXCEEDED for it was verified and not approved.
C29_Witness ==
    /\ LimitsNotNegative
    /\ \E i \in Ids(policies) :
          /\ "max_actions_per_window" \in DOMAIN policies[i].rules_json
          /\ "required_data_freshness_seconds" \in DOMAIN policies[i].rules_json
    /\ result.called
    /\ "error" \notin DOMAIN result.response
    /\ now > 0
    /\ \E i \in Ids(claims) :
          /\ claims[i].reason_code = "FREQUENCY_EXCEEDED"
          /\ claims[i].status = "submitted"
          /\ runs[claims[i].run_id].agent_id = 1
          /\ runs[claims[i].run_id].reason_codes.none
          /\ req[1].pc = "done"

\* C30: notify_operator makes at most 3 delivery attempts per event, numbered
\* in order and after delays of 0 s, 2 s and 8 s, makes no attempt after one
\* that got a 2xx response, and writes one audit record per attempt; once it
\* has returned, it returned true exactly when some attempt got a 2xx
\* response, it stopped short of 3 attempts only for such a response, and it
\* made no attempt and returned false when the agent or the webhook URL is
\* missing.
Got2xx(delivery) ==
    /\ delivery.status_code.t = "num"
    /\ delivery.status_code.n >= 200
    /\ delivery.status_code.n < 300

DeliveriesOf(call) ==
    SelectSeq(notifications, LAMBDA d : d.event_type = call.event_type)

NoTarget(call) ==
    \/ call.agent_id \notin DOMAIN agents
    \/ NoWebhookUrl(WebhookOperators[agents[call.agent_id].operator_id])

====
